---- MODULE Spec2Model ----
(***************************************************************************)
(* Model of fboss/agent/hw/bcm/BcmWarmBootCache.cpp: the warm boot cache   *)
(* of the Broadcom switch agent.  The cache loads the persisted switch     *)
(* state, discovers the objects programmed in hardware (populate and its   *)
(* traversal callbacks), lets the reconciliation logic claim the objects   *)
(* it keeps, and finally deletes what was not claimed (clear).             *)
(***************************************************************************)
EXTENDS FiniteSets, Integers, Sequences, TLC

(* ------------------------------ bounds -------------------------------- *)
MaxEgress == 2          \* egress ids
MaxAddr == 1            \* addresses of each family
MaxRoutes == 3          \* routes in the hardware route table
MaxHwObjects == 4       \* objects in hardware at a warm boot with teardown
MaxEgressObjs == 3      \* egress objects in hardware at egress discovery
MaxDupCallbacks == 1    \* repeated callbacks of the host and route traversals
MaxClearRuns == 2       \* runs of clear() on one cache

(* -------------------------- program constants -------------------------- *)
INVALID == -1                       \* BcmEgressBase::INVALID
kVlanForCPUEgressEntries == 0
DefaultVlan == 1                    \* what opennsl_vlan_default_get reports

(* ------------------------------ universes ------------------------------ *)
EgressIdSet == {100 + i : i \in 1..MaxEgress}
EcmpIdSet == {201, 202}

MinOf(S) == CHOOSE x \in S : \A y \in S : x <= y

\* iteration order of a flat_set<int>: ascending
RECURSIVE SetToSortedSeq(_)
SetToSortedSeq(S) ==
  IF S = {} THEN << >>
  ELSE <<MinOf(S)>> \o SetToSortedSeq(S \ {MinOf(S)})

\* the lists of egress ids a snapshot or the hardware reports; the loader
\* and the callbacks turn every list into a set, so the lists are taken in
\* ascending order without repetition
PathLists == {SetToSortedSeq(S) : S \in SUBSET EgressIdSet}

\* one element of hostTable.ecmpHosts / warmBootCache.ecmpObjects
FileEntries == [egressId : EcmpIdSet \cup {INVALID}, paths : PathLists]
\* the ecmpHosts / ecmpObjects lists of a snapshot: at most one element
FileLists == {<< >>} \cup {<<e>> : e \in FileEntries}

\* one ECMP group as the hardware traversal reports it
HwEcmps == [ecmp_intf : EcmpIdSet, intfArray : PathLists]

\* the entries of the hardware route table: IPv4 masks of 0, 24 and 32 one
\* bits, IPv6 masks of 0, 32, 64 and 128 one bits
VrfSet == {0, 1}
HwRoutes(intfs) ==
  [l3a_vrf : VrfSet, isIPv6 : {FALSE}, net : 1..MaxAddr,
   masklen : {0, 24, 32}, l3a_intf : intfs]
  \cup [l3a_vrf : VrfSet, isIPv6 : {TRUE}, net : 1..MaxAddr,
        masklen : {0, 32, 64, 128}, l3a_intf : intfs]

VARIABLES
  pc,                               \* position of the agent in the warm boot
  canUseHostTableForHostRoutes,     \* platform setting
  dumpedSwSwitchState_,
  hwSwitchEcmp2EgressIds_,
  hwSwitchEcmp2EgressIdsPopulated_,
  vlan2VlanInfo_,
  vlanAndMac2Intf_,
  vlan2Station_,
  vrfIp2Host_,
  egressOrEcmpIdsFromHostTable_,
  vrfAndIP2Route_,
  vrfPrefix2Route_,
  egressId2EgressAndBool_,
  dropEgressId_,
  toCPUEgressId_,
  egressIds2Ecmp_,
  hwVlans, hwIntfs, hwStations,     \* the objects existing in hardware
  hwHosts, hwRoutes, hwEgress, hwEcmps,
  egressCalls,                      \* callbacks the egress traversal has made
  tableCalls,                       \* callbacks the host and route traversals made
  claimed,                          \* the objects the reconciliation claimed
  cursor,                           \* keys the running loop of clear() has passed
  deleted,                          \* the delete/destroy calls issued, in order
  clearRuns,                        \* runs of clear() that have completed
  pathsRet,                         \* outcome of the last getPathsForEcmp
  vlanMapRet,                       \* outcome of the last reconstructVlanMap
  warmBootCacheJson,                \* output of the last toFollyDynamic
  nextHostTable,                    \* ecmpHosts of the next cycle's snapshot
  nextEcmp2EgressIds                \* the next cycle's persisted path map

fileVars == <<dumpedSwSwitchState_, hwSwitchEcmp2EgressIds_,
              hwSwitchEcmp2EgressIdsPopulated_>>
l2Vars == <<vlan2VlanInfo_, vlanAndMac2Intf_, vlan2Station_>>
l3Vars == <<vrfIp2Host_, egressOrEcmpIdsFromHostTable_, vrfAndIP2Route_,
            vrfPrefix2Route_>>
egrVars == <<egressId2EgressAndBool_, dropEgressId_, toCPUEgressId_>>
hwL2Vars == <<hwVlans, hwIntfs, hwStations>>
hwL3Vars == <<hwHosts, hwRoutes>>
hwVars == <<hwL2Vars, hwL3Vars, hwEgress, hwEcmps>>
gcVars == <<claimed, cursor, deleted, clearRuns, egressCalls, tableCalls>>
apiVars == <<pathsRet, vlanMapRet, warmBootCacheJson, nextHostTable,
             nextEcmp2EgressIds>>
vars == <<pc, canUseHostTableForHostRoutes, fileVars, l2Vars, l3Vars, egrVars,
          egressIds2Ecmp_, hwVars, gcVars, apiVars>>

(* ------------------------------ helpers -------------------------------- *)
EmptyMap == << >>
NoRet == [kind |-> "none"]

\* the software state of a snapshot: the pointer getVlans() returns, to a
\* map from the VLANs it holds to the IPs of their ARP and NDP tables
NullVlans == [null |-> TRUE, map |-> EmptyMap]
VlansPtr(m) == [null |-> FALSE, map |-> m]
NoDumpedState == [vlans |-> NullVlans]
EmptyDumpedState == [vlans |-> VlansPtr(EmptyMap)]

Range(s) == {s[i] : i \in DOMAIN s}

\* m with key k bound to v (std::map operator[] followed by assignment)
MapPut(m, k, v) == [x \in DOMAIN m \cup {k} |-> IF x = k THEN v ELSE m[x]]

\* m without key k (std::map::erase)
MapErase(m, k) == [x \in DOMAIN m \ {k} |-> m[x]]

\* EgressIds(intfArray, intfArray + intfCount)
toEgressIds(intfArray, intfCount) == {intfArray[i] : i \in 1..intfCount}

PhaseRank(p) ==
  CASE p = "load" -> 0
    [] p = "vlans" -> 1
    [] p = "hosts4" -> 2
    [] p = "hosts6" -> 3
    [] p = "routes4" -> 4
    [] p = "routes6" -> 5
    [] p = "egress" -> 6
    [] p = "ecmp" -> 7
    [] p = "ready" -> 8
    [] OTHER -> 99

\* populate() runs its traversals in a fixed order: a traversal can start
\* only while no later one has started
InPopulate(p) == PhaseRank(pc) >= 1 /\ PhaseRank(pc) <= PhaseRank(p)

(* ----------------------- persisted state loader ------------------------ *)
\* hwSwitchEcmp2EgressIds_[id].insert(path) for every path of one entry
InsertPaths(m, id, paths) ==
  IF Len(paths) = 0 THEN m
  ELSE MapPut(m, id, (IF id \in DOMAIN m THEN m[id] ELSE {}) \cup Range(paths))

\* the loop over hostTable[kEcmpHosts]: entries with an INVALID id are skipped
RECURSIVE LoadEcmpHosts(_, _)
LoadEcmpHosts(m, entries) ==
  IF entries = << >> THEN m
  ELSE LET e == Head(entries) IN
       LoadEcmpHosts(IF e.egressId = INVALID THEN m
                     ELSE InsertPaths(m, e.egressId, e.paths),
                     Tail(entries))

\* the loop over warmBootCache[kEcmpObjects]
RECURSIVE LoadEcmpObjects(_, _)
LoadEcmpObjects(m, entries) ==
  IF entries = << >> THEN m
  ELSE LET e == Head(entries) IN
       LoadEcmpObjects(InsertPaths(m, e.egressId, e.paths), Tail(entries))

\* CHECK(ecmpEgressId != BcmEgressBase::INVALID) fails for some entry
EcmpObjectsCheckFails(entries) ==
  \E i \in DOMAIN entries : entries[i].egressId = INVALID

\* the index of the entry that fails it
FirstInvalid(entries) ==
  MinOf({i \in DOMAIN entries : entries[i].egressId = INVALID})

ReconstructEcmpMap(ecmpHosts, ecmpObjects) ==
  LoadEcmpObjects(LoadEcmpHosts(EmptyMap, ecmpHosts), ecmpObjects)

\* populateStateFromWarmbootFile, on a snapshot whose software state decodes
populateStateFromWarmbootFile(dumped, hasHwSwitch, ecmpHosts, ecmpObjects) ==
  /\ pc = "load"
  /\ dumpedSwSwitchState_' = dumped
  /\ IF ~hasHwSwitch
       THEN /\ pc' = "vlans"
            /\ UNCHANGED <<hwSwitchEcmp2EgressIds_,
                           hwSwitchEcmp2EgressIdsPopulated_>>
       ELSE /\ hwSwitchEcmp2EgressIdsPopulated_' = TRUE
            /\ IF EcmpObjectsCheckFails(ecmpObjects)
                 THEN /\ pc' = "fatal"
                      /\ hwSwitchEcmp2EgressIds_' =
                           LoadEcmpObjects(
                             LoadEcmpHosts(EmptyMap, ecmpHosts),
                             SubSeq(ecmpObjects, 1,
                                    FirstInvalid(ecmpObjects) - 1))
                 ELSE /\ pc' = "vlans"
                      /\ hwSwitchEcmp2EgressIds_' =
                           ReconstructEcmpMap(ecmpHosts, ecmpObjects)
  /\ UNCHANGED <<canUseHostTableForHostRoutes, l2Vars, l3Vars, egrVars,
                 egressIds2Ecmp_, hwVars, gcVars, apiVars>>

(* ------------------------------ populate ------------------------------- *)
\* one iteration of the loop over vlanList: the VLAN, the L3 interface
\* opennsl_l3_intf_find_vlan finds for it (if any) and, when an interface was
\* found, the L2 station opennsl_l2_station_get finds (if any)
\* a loop that asks for the station of every VLAN
StationLookedUp_always(intfFound, stationFound) == stationFound

\* opennsl_l2_station_get is called only for a VLAN whose interface was
\* found, and the station is stored only when the call succeeds
StationLookedUp(intfFound, stationFound) == intfFound /\ stationFound

PopulateVlan(vlan_tag, intfFound, mac, stationFound) ==
  /\ InPopulate("vlans")
  /\ vlan_tag \notin hwVlans
  /\ pc' = "vlans"
  /\ hwVlans' = hwVlans \cup {vlan_tag}
  /\ vlan2VlanInfo_' = vlan2VlanInfo_ \cup {vlan_tag}
  /\ IF intfFound
       THEN /\ hwIntfs' = hwIntfs \cup {[l3a_vid |-> vlan_tag, l3a_mac |-> mac]}
            /\ vlanAndMac2Intf_' =
                 MapPut(vlanAndMac2Intf_, <<vlan_tag, mac>>,
                        [l3a_vid |-> vlan_tag, l3a_mac |-> mac])
       ELSE UNCHANGED <<hwIntfs, vlanAndMac2Intf_>>
  /\ IF StationLookedUp(intfFound, stationFound)
       THEN /\ hwStations' = hwStations \cup {vlan_tag}
            /\ vlan2Station_' = vlan2Station_ \cup {vlan_tag}
       ELSE UNCHANGED <<hwStations, vlan2Station_>>
  /\ UNCHANGED <<canUseHostTableForHostRoutes, fileVars, l3Vars, egrVars,
                 egressIds2Ecmp_, hwL3Vars, hwEgress, hwEcmps, gcVars, apiVars>>

HostPhase(host) == IF host.ip.v6 THEN "hosts6" ELSE "hosts4"

\* the number of host and route callbacks is bounded
TableCallAllowed ==
  tableCalls < Cardinality(hwHosts) + Cardinality(hwRoutes) + MaxDupCallbacks

\* the traversal reports host; hardware holds one host entry per (vrf, ip),
\* so a second callback for a key carries the same entry
hostTraversalCallback(host) ==
  /\ InPopulate(HostPhase(host))
  /\ \A h \in hwHosts :
       <<h.l3a_vrf, h.ip>> = <<host.l3a_vrf, host.ip>> => h = host
  /\ TableCallAllowed
  /\ tableCalls' = tableCalls + 1
  /\ pc' = HostPhase(host)
  /\ hwHosts' = hwHosts \cup {host}
  /\ vrfIp2Host_' = MapPut(vrfIp2Host_, <<host.l3a_vrf, host.ip>>, host)
  /\ egressOrEcmpIdsFromHostTable_' =
       egressOrEcmpIdsFromHostTable_ \cup {host.l3a_intf}
  /\ UNCHANGED <<canUseHostTableForHostRoutes, fileVars, l2Vars,
                 vrfAndIP2Route_, vrfPrefix2Route_, egrVars, egressIds2Ecmp_,
                 hwL2Vars, hwRoutes, hwEgress, hwEcmps, claimed, cursor,
                 deleted, clearRuns, egressCalls, apiVars>>

\* getFullMaskIPv4Address / getFullMaskIPv6Address: a mask is modelled by
\* its family and its number of leading one bits
getFullMaskIPv4Address == [v6 |-> FALSE, len |-> 32]
getFullMaskIPv6Address == [v6 |-> TRUE, len |-> 128]

\* the IPAddress values the callback builds from the route's fields
RouteIp(route) == [v6 |-> route.isIPv6, addr |-> route.net]
RouteMask(route) == [v6 |-> route.isIPv6, len |-> route.masklen]

\* the condition taking every mask of 32 or 128 one bits for a full mask
IsHostRoute_anyFamily(isIPv6, mask) ==
  /\ canUseHostTableForHostRoutes
  /\ mask.len \in {getFullMaskIPv4Address.len, getFullMaskIPv6Address.len}

\* the condition of the if in routeTraversalCallback
IsHostRoute(isIPv6, mask) ==
  /\ canUseHostTableForHostRoutes
  /\ \/ isIPv6 /\ mask = getFullMaskIPv6Address
     \/ ~isIPv6 /\ mask = getFullMaskIPv4Address

RoutePhase(route) == IF route.isIPv6 THEN "routes6" ELSE "routes4"

\* the key of a route in the hardware route table
HwRouteKey(route) ==
  <<route.l3a_vrf, route.isIPv6, route.net, route.masklen>>

\* the traversal reports route; hardware holds one route per (vrf, prefix,
\* mask), so a second callback for a key carries the same route
routeTraversalCallback(route) ==
  /\ InPopulate(RoutePhase(route))
  /\ \A r \in hwRoutes : HwRouteKey(r) = HwRouteKey(route) => r = route
  /\ TableCallAllowed
  /\ tableCalls' = tableCalls + 1
  /\ pc' = RoutePhase(route)
  /\ hwRoutes' = hwRoutes \cup {route}
  /\ LET ip == RouteIp(route)
         mask == RouteMask(route) IN
     IF IsHostRoute(route.isIPv6, mask)
       THEN /\ vrfAndIP2Route_' =
                 MapPut(vrfAndIP2Route_, <<route.l3a_vrf, ip>>, route)
            /\ UNCHANGED vrfPrefix2Route_
       ELSE /\ vrfPrefix2Route_' =
                 MapPut(vrfPrefix2Route_, <<route.l3a_vrf, ip, mask>>, route)
            /\ UNCHANGED vrfAndIP2Route_
  /\ UNCHANGED <<canUseHostTableForHostRoutes, fileVars, l2Vars, vrfIp2Host_,
                 egressOrEcmpIdsFromHostTable_, egrVars, egressIds2Ecmp_,
                 hwL2Vars, hwHosts, hwEgress, hwEcmps, claimed, cursor,
                 deleted, clearRuns, egressCalls, apiVars>>

\* egress->flags & OPENNSL_L3_DST_DISCARD
IsDiscard(egress) == "DST_DISCARD" \in egress.flags
\* egress->flags & (OPENNSL_L3_L2TOCPU | OPENNSL_L3_COPY_TO_CPU)
IsToCPU(egress) == egress.flags \cap {"L2TOCPU", "COPY_TO_CPU"} # {}

\* a callback that overwrites on a second call for a stored id
EgressOutcome_noDoubleCheck(egressId, egress) ==
  IF egressId \in egressOrEcmpIdsFromHostTable_ THEN "store"
  ELSE IF IsDiscard(egress)
    THEN IF dropEgressId_ # INVALID THEN "dupdrop" ELSE "drop"
  ELSE IF IsToCPU(egress)
    THEN IF toCPUEgressId_ # INVALID THEN "duptocpu" ELSE "tocpu"
  ELSE "unreferenced"

\* a callback that takes every unreferenced flagged object for a singleton
EgressOutcome_noDupCheck(egressId, egress) ==
  IF egressId \in DOMAIN egressId2EgressAndBool_ THEN "double"
  ELSE IF egressId \in egressOrEcmpIdsFromHostTable_ THEN "store"
  ELSE IF IsDiscard(egress) THEN "drop"
  ELSE IF IsToCPU(egress) THEN "tocpu"
  ELSE "unreferenced"

\* what the callback does with (egressId, egress): "double" (the CHECK at
\* its top fails), "store", "drop", "tocpu" or a fatal outcome
EgressOutcome(egressId, egress) ==
  IF egressId \in DOMAIN egressId2EgressAndBool_ THEN "double"
  ELSE IF egressId \in egressOrEcmpIdsFromHostTable_ THEN "store"
  ELSE IF IsDiscard(egress)
    THEN IF dropEgressId_ # INVALID THEN "dupdrop" ELSE "drop"
  ELSE IF IsToCPU(egress)
    THEN IF toCPUEgressId_ # INVALID THEN "duptocpu" ELSE "tocpu"
  ELSE "unreferenced"

\* a callback that puts the singletons into the egress map as well
StoresEgress_singletonsToo(o) == o \in {"store", "drop", "tocpu"}

\* the outcome on which the callback assigns egressId2EgressAndBool_[egressId]
StoresEgress(o) == o = "store"

\* the traversal reports (egressId, egress); hardware holds one egress
\* object per id, so a second callback for an id carries the same object
egressTraversalCallback(egressId, egress) ==
  /\ InPopulate("egress")
  /\ \A e \in hwEgress : e.id = egressId => e.egress = egress
  /\ egressCalls <= MaxEgressObjs
  /\ egressCalls' = egressCalls + 1
  /\ hwEgress' = hwEgress \cup {[id |-> egressId, egress |-> egress]}
  /\ LET o == EgressOutcome(egressId, egress) IN
     /\ pc' = IF o \in {"store", "drop", "tocpu"} THEN "egress" ELSE "fatal"
     /\ egressId2EgressAndBool_' =
          IF StoresEgress(o)
            THEN MapPut(egressId2EgressAndBool_, egressId,
                        [egress |-> egress, claimed |-> FALSE])
            ELSE egressId2EgressAndBool_
     /\ dropEgressId_' = IF o = "drop" THEN egressId ELSE dropEgressId_
     /\ toCPUEgressId_' = IF o = "tocpu" THEN egressId ELSE toCPUEgressId_
  /\ UNCHANGED <<canUseHostTableForHostRoutes, fileVars, l2Vars, l3Vars,
                 egressIds2Ecmp_, hwL2Vars, hwL3Vars, hwEcmps, claimed, cursor,
                 deleted, clearRuns, tableCalls, apiVars>>

(* --------------------------- getPathsForEcmp --------------------------- *)
\* getPathsForEcmp without its early return for an empty map
getPathsForEcmp_noEmptyCase(ecmp) ==
  IF ~hwSwitchEcmp2EgressIdsPopulated_ THEN [kind |-> "fatal"]
  ELSE IF ecmp \notin DOMAIN hwSwitchEcmp2EgressIds_
    THEN [kind |-> "throw"]
  ELSE [kind |-> "ok", paths |-> hwSwitchEcmp2EgressIds_[ecmp]]

getPathsForEcmp(ecmp) ==
  IF ~hwSwitchEcmp2EgressIdsPopulated_ THEN [kind |-> "fatal"]
  ELSE IF DOMAIN hwSwitchEcmp2EgressIds_ = {}
    THEN [kind |-> "ok", paths |-> {}]
  ELSE IF ecmp \notin DOMAIN hwSwitchEcmp2EgressIds_
    THEN [kind |-> "throw"]
  ELSE [kind |-> "ok", paths |-> hwSwitchEcmp2EgressIds_[ecmp]]

\* a caller outside the cache asks for the paths of a group, once populate()
\* has finished or once clear() has
CallGetPathsForEcmp(ecmp) ==
  /\ pc \in {"ready", "done"}
  /\ pathsRet' = [id |-> ecmp] @@ getPathsForEcmp(ecmp)
  /\ pc' = IF getPathsForEcmp(ecmp).kind = "fatal" THEN "fatal" ELSE pc
  /\ UNCHANGED <<canUseHostTableForHostRoutes, fileVars, l2Vars, l3Vars,
                 egrVars, egressIds2Ecmp_, hwVars, gcVars, vlanMapRet,
                 warmBootCacheJson, nextHostTable, nextEcmp2EgressIds>>

(* --------------------- ecmpEgressTraversalCallback --------------------- *)
\* the resolution taking the members the hardware reports whenever it
\* reports some
ResolveEcmpPaths_hwFirst(ecmp_intf, intfArray, intfCount) ==
  IF intfCount > 0
    THEN [kind |-> "paths", egressIds |-> toEgressIds(intfArray, intfCount)]
  ELSE IF hwSwitchEcmp2EgressIdsPopulated_
         /\ getPathsForEcmp(ecmp_intf).kind = "ok"
    THEN [kind |-> "paths", egressIds |-> getPathsForEcmp(ecmp_intf).paths]
  ELSE [kind |-> "skip"]

\* the resolution falling back to the hardware members when the lookup
\* fails
ResolveEcmpPaths_fallback(ecmp_intf, intfArray, intfCount) ==
  IF hwSwitchEcmp2EgressIdsPopulated_
    THEN LET r == getPathsForEcmp(ecmp_intf) IN
         IF r.kind = "throw"
           THEN IF intfCount = 0 THEN [kind |-> "skip"]
                ELSE [kind |-> "paths",
                      egressIds |-> toEgressIds(intfArray, intfCount)]
           ELSE [kind |-> "paths", egressIds |-> r.paths]
    ELSE IF intfCount = 0 THEN [kind |-> "skip"]
         ELSE [kind |-> "paths",
               egressIds |-> toEgressIds(intfArray, intfCount)]

\* the resolution skipping every group when no persisted data was loaded
ResolveEcmpPaths_persistedOnly(ecmp_intf, intfArray, intfCount) ==
  IF hwSwitchEcmp2EgressIdsPopulated_
    THEN LET r == getPathsForEcmp(ecmp_intf) IN
         IF r.kind = "throw"
           THEN IF intfCount = 0 THEN [kind |-> "skip"] ELSE [kind |-> "throw"]
           ELSE [kind |-> "paths", egressIds |-> r.paths]
    ELSE [kind |-> "skip"]

\* the outcome of the path resolution at the top of the callback:
\* "skip" (return 0), "throw" or "paths"
ResolveEcmpPaths(ecmp_intf, intfArray, intfCount) ==
  IF hwSwitchEcmp2EgressIdsPopulated_
    THEN LET r == getPathsForEcmp(ecmp_intf) IN
         IF r.kind = "throw"
           THEN IF intfCount = 0 THEN [kind |-> "skip"] ELSE [kind |-> "throw"]
           ELSE [kind |-> "paths", egressIds |-> r.paths]
    ELSE IF intfCount = 0 THEN [kind |-> "skip"]
         ELSE [kind |-> "paths",
               egressIds |-> toEgressIds(intfArray, intfCount)]

\* a callback without the CHECK on the size of the path set
EmptyPathsCheckFails_never(egressIds) == FALSE

\* CHECK(egressIds.size() > 0) fails
EmptyPathsCheckFails(egressIds) == Cardinality(egressIds) = 0

\* a callback without the CHECK on a path set already recorded
DuplicatePathsCheckFails_never(egressIds) == FALSE

\* CHECK(egressIds2Ecmp_.find(egressIds) == egressIds2Ecmp_.end()) fails
DuplicatePathsCheckFails(egressIds) == egressIds \in DOMAIN egressIds2Ecmp_

ecmpEgressTraversalCallback(ecmp) ==
  /\ InPopulate("ecmp")
  /\ \A g \in hwEcmps : g.ecmp_intf # ecmp.ecmp_intf
  /\ hwEcmps' = hwEcmps \cup {ecmp}
  /\ LET r == ResolveEcmpPaths(ecmp.ecmp_intf, ecmp.intfArray,
                               Len(ecmp.intfArray)) IN
     CASE r.kind = "skip" ->
            /\ pc' = "ecmp"
            /\ UNCHANGED egressIds2Ecmp_
       [] r.kind = "throw" ->
            /\ pc' = "thrown"
            /\ UNCHANGED egressIds2Ecmp_
       [] OTHER ->
            IF \/ EmptyPathsCheckFails(r.egressIds)
               \/ DuplicatePathsCheckFails(r.egressIds)
              THEN /\ pc' = "fatal"
                   /\ UNCHANGED egressIds2Ecmp_
              ELSE /\ pc' = "ecmp"
                   /\ egressIds2Ecmp_' =
                        MapPut(egressIds2Ecmp_, r.egressIds, ecmp.ecmp_intf)
  /\ UNCHANGED <<canUseHostTableForHostRoutes, fileVars, l2Vars, l3Vars,
                 egrVars, hwL2Vars, hwL3Vars, hwEgress, gcVars, apiVars>>

\* the end of populate(): every traversal has returned
FinishPopulate ==
  /\ InPopulate("ecmp")
  /\ pc' = "ready"
  /\ egressOrEcmpIdsFromHostTable_' = {}
  /\ UNCHANGED <<canUseHostTableForHostRoutes, fileVars, l2Vars, vrfIp2Host_,
                 vrfAndIP2Route_, vrfPrefix2Route_, egrVars, egressIds2Ecmp_,
                 hwVars, gcVars, apiVars>>

(* ---------------------------- toFollyDynamic --------------------------- *)
\* the serialization losing the last path of every group
RECURSIVE EcmpObjectsOf_dropLast(_, _)
EcmpObjectsOf_dropLast(m, ids) ==
  IF ids = << >> THEN << >>
  ELSE LET paths == SetToSortedSeq(m[Head(ids)]) IN
       <<[egressId |-> Head(ids),
          paths |-> SubSeq(paths, 1, Len(paths) - 1)]>>
       \o EcmpObjectsOf_dropLast(m, Tail(ids))

\* the ecmpObjects list: one object per entry of hwSwitchEcmp2EgressIds_,
\* in key order, its paths in set order
RECURSIVE EcmpObjectsOf(_, _)
EcmpObjectsOf(m, ids) ==
  IF ids = << >> THEN << >>
  ELSE <<[egressId |-> Head(ids), paths |-> SetToSortedSeq(m[Head(ids)])]>>
       \o EcmpObjectsOf(m, Tail(ids))

toFollyDynamic ==
  EcmpObjectsOf(hwSwitchEcmp2EgressIds_,
                SetToSortedSeq(DOMAIN hwSwitchEcmp2EgressIds_))

\* the agent serializes the cache on exit
Serialize ==
  /\ pc = "ready"
  /\ pc' = "serialized"
  /\ warmBootCacheJson' = toFollyDynamic
  /\ UNCHANGED <<canUseHostTableForHostRoutes, fileVars, l2Vars, l3Vars,
                 egrVars, egressIds2Ecmp_, hwVars, gcVars, pathsRet,
                 vlanMapRet, nextHostTable, nextEcmp2EgressIds>>

\* the next warm boot loads a snapshot whose warm boot cache section is the
\* serialized one and whose host table section is ecmpHosts
NextCycleLoad(ecmpHosts) ==
  /\ pc = "serialized"
  /\ pc' = "reloaded"
  /\ nextHostTable' = ecmpHosts
  /\ nextEcmp2EgressIds' = ReconstructEcmpMap(ecmpHosts, warmBootCacheJson)
  /\ UNCHANGED <<canUseHostTableForHostRoutes, fileVars, l2Vars, l3Vars,
                 egrVars, egressIds2Ecmp_, hwVars, gcVars, pathsRet,
                 vlanMapRet, warmBootCacheJson>>

(* ------------------------- claims (programmed) ------------------------- *)
\* the reconciliation logic keeps an object: it erases the entry from its
\* map or, for an egress object, sets the entry's claimed flag
ClaimFrame ==
  UNCHANGED <<pc, canUseHostTableForHostRoutes, fileVars, hwVars, cursor,
              deleted, clearRuns, egressCalls, tableCalls, apiVars,
              egressOrEcmpIdsFromHostTable_, dropEgressId_,
              toCPUEgressId_>>

ClaimPrefixRoute(key) ==
  /\ pc = "ready"
  /\ key \in DOMAIN vrfPrefix2Route_
  /\ vrfPrefix2Route_' = MapErase(vrfPrefix2Route_, key)
  /\ claimed' = claimed \cup {[kind |-> "route", obj |-> vrfPrefix2Route_[key]]}
  /\ ClaimFrame
  /\ UNCHANGED <<l2Vars, vrfIp2Host_, vrfAndIP2Route_, egressId2EgressAndBool_,
                 egressIds2Ecmp_>>

ClaimHostRoute(key) ==
  /\ pc = "ready"
  /\ key \in DOMAIN vrfAndIP2Route_
  /\ vrfAndIP2Route_' = MapErase(vrfAndIP2Route_, key)
  /\ claimed' = claimed \cup {[kind |-> "route", obj |-> vrfAndIP2Route_[key]]}
  /\ ClaimFrame
  /\ UNCHANGED <<l2Vars, vrfIp2Host_, vrfPrefix2Route_, egressId2EgressAndBool_,
                 egressIds2Ecmp_>>

ClaimHost(key) ==
  /\ pc = "ready"
  /\ key \in DOMAIN vrfIp2Host_
  /\ vrfIp2Host_' = MapErase(vrfIp2Host_, key)
  /\ claimed' = claimed \cup {[kind |-> "host", obj |-> vrfIp2Host_[key]]}
  /\ ClaimFrame
  /\ UNCHANGED <<l2Vars, vrfAndIP2Route_, vrfPrefix2Route_,
                 egressId2EgressAndBool_, egressIds2Ecmp_>>

ClaimEcmp(egressIds) ==
  /\ pc = "ready"
  /\ egressIds \in DOMAIN egressIds2Ecmp_
  /\ egressIds2Ecmp_' = MapErase(egressIds2Ecmp_, egressIds)
  /\ claimed' = claimed \cup {[kind |-> "ecmp", obj |-> egressIds2Ecmp_[egressIds]]}
  /\ ClaimFrame
  /\ UNCHANGED <<l2Vars, vrfIp2Host_, vrfAndIP2Route_, vrfPrefix2Route_,
                 egressId2EgressAndBool_>>

ClaimEgress(egressId) ==
  /\ pc = "ready"
  /\ egressId \in DOMAIN egressId2EgressAndBool_
  /\ ~egressId2EgressAndBool_[egressId].claimed
  /\ egressId2EgressAndBool_' =
       [egressId2EgressAndBool_ EXCEPT ![egressId].claimed = TRUE]
  /\ claimed' = claimed \cup {[kind |-> "egress", obj |-> egressId]}
  /\ ClaimFrame
  /\ UNCHANGED <<l2Vars, vrfIp2Host_, vrfAndIP2Route_, vrfPrefix2Route_,
                 egressIds2Ecmp_>>

ClaimIntf(key) ==
  /\ pc = "ready"
  /\ key \in DOMAIN vlanAndMac2Intf_
  /\ vlanAndMac2Intf_' = MapErase(vlanAndMac2Intf_, key)
  /\ claimed' = claimed \cup {[kind |-> "intf", obj |-> vlanAndMac2Intf_[key]]}
  /\ ClaimFrame
  /\ UNCHANGED <<vlan2VlanInfo_, vlan2Station_, vrfIp2Host_, vrfAndIP2Route_,
                 vrfPrefix2Route_, egressId2EgressAndBool_, egressIds2Ecmp_>>

ClaimStation(vlan) ==
  /\ pc = "ready"
  /\ vlan \in vlan2Station_
  /\ vlan2Station_' = vlan2Station_ \ {vlan}
  /\ claimed' = claimed \cup {[kind |-> "station", obj |-> vlan]}
  /\ ClaimFrame
  /\ UNCHANGED <<vlan2VlanInfo_, vlanAndMac2Intf_, vrfIp2Host_, vrfAndIP2Route_,
                 vrfPrefix2Route_, egressId2EgressAndBool_, egressIds2Ecmp_>>

ClaimVlan(vlan) ==
  /\ pc = "ready"
  /\ vlan \in vlan2VlanInfo_
  /\ vlan2VlanInfo_' = vlan2VlanInfo_ \ {vlan}
  /\ claimed' = claimed \cup {[kind |-> "vlan", obj |-> vlan]}
  /\ ClaimFrame
  /\ UNCHANGED <<vlan2Station_, vlanAndMac2Intf_, vrfIp2Host_, vrfAndIP2Route_,
                 vrfPrefix2Route_, egressId2EgressAndBool_, egressIds2Ecmp_>>

(* -------------------------------- clear -------------------------------- *)
\* the order in which the maps are iterated: by key
IpRank(ip) == (IF ip.v6 THEN 1000 ELSE 0) + ip.addr
MaskRank(mask) == (IF mask.v6 THEN 1000 ELSE 0) + mask.len
PrefixKeyRank(key) ==
  key[1] * 10000000 + IpRank(key[2]) * 2000 + MaskRank(key[3])
HostKeyRank(key) == key[1] * 10000 + IpRank(key[2])
IntfKeyRank(key) == key[1] * 1000 + key[2]
IdRank(id) == id

FirstBy(S, Rank(_)) == CHOOSE x \in S : \A y \in S : Rank(x) <= Rank(y)

\* operator< of flat_set<EgressId>: lexicographic
RECURSIVE EgressIdsLess(_, _)
EgressIdsLess(a, b) ==
  IF b = {} THEN FALSE
  ELSE IF a = {} THEN TRUE
  ELSE IF MinOf(a) # MinOf(b) THEN MinOf(a) < MinOf(b)
  ELSE EgressIdsLess(a \ {MinOf(a)}, b \ {MinOf(b)})

FirstEgressIds(S) == CHOOSE x \in S : \A y \in S \ {x} : EgressIdsLess(x, y)

\* one delete/destroy call of clear(): the call is issued; when the driver
\* reports success the object is gone from hardware and the loop goes on,
\* otherwise bcmLogFatal ends the process
Issued(kind, obj) == deleted' = Append(deleted, [kind |-> kind, obj |-> obj])

ClearFrame ==
  UNCHANGED <<canUseHostTableForHostRoutes, hwSwitchEcmp2EgressIdsPopulated_,
              egressOrEcmpIdsFromHostTable_, dropEgressId_, toCPUEgressId_,
              claimed, egressCalls, tableCalls, apiVars>>

\* a teardown that deletes the stations before the interfaces
StageAfter_stationsEarly(stage) ==
  CASE stage = "ready" -> "clear_prefix"
    [] stage = "clear_prefix" -> "clear_hostroutes"
    [] stage = "clear_hostroutes" -> "clear_hosts"
    [] stage = "clear_hosts" -> "clear_ecmps"
    [] stage = "clear_ecmps" -> "clear_egress"
    [] stage = "clear_egress" -> "clear_stations"
    [] stage = "clear_stations" -> "clear_intfs"
    [] stage = "clear_intfs" -> "clear_vlans"
    [] stage = "clear_vlans" -> "done"

\* a teardown that destroys the egress objects before the host entries
StageAfter_egressEarly(stage) ==
  CASE stage = "ready" -> "clear_prefix"
    [] stage = "clear_prefix" -> "clear_hostroutes"
    [] stage = "clear_hostroutes" -> "clear_egress"
    [] stage = "clear_egress" -> "clear_hosts"
    [] stage = "clear_hosts" -> "clear_ecmps"
    [] stage = "clear_ecmps" -> "clear_intfs"
    [] stage = "clear_intfs" -> "clear_stations"
    [] stage = "clear_stations" -> "clear_vlans"
    [] stage = "clear_vlans" -> "done"

\* the order of the loops of clear()
StageAfter(stage) ==
  CASE stage = "ready" -> "clear_prefix"
    [] stage = "clear_prefix" -> "clear_hostroutes"
    [] stage = "clear_hostroutes" -> "clear_hosts"
    [] stage = "clear_hosts" -> "clear_ecmps"
    [] stage = "clear_ecmps" -> "clear_egress"
    [] stage = "clear_egress" -> "clear_intfs"
    [] stage = "clear_intfs" -> "clear_stations"
    [] stage = "clear_stations" -> "clear_vlans"
    [] stage = "clear_vlans" -> "done"

\* an entry of egressId2EgressAndBool_ taken for unused whatever its flag
EgressInUse_never(entry) == FALSE

\* egressIdAndEgressBool.second.second
EgressInUse(entry) == entry.claimed

\* a teardown that takes VLAN 2 for the default VLAN
IsDefaultVlan_wrongVlan(vlan) == vlan = 2

\* a teardown that takes no VLAN for the default VLAN
IsDefaultVlan_never(vlan) == FALSE

\* defaultVlan == vlanItr->first
IsDefaultVlan(vlan) == vlan = DefaultVlan

\* a bcmLogFatal that logs the failure and returns
bcmLogFatal_logOnly(ok, next) == next

\* bcmLogFatal(rv, ...): the position after the call, "fatal" when rv is a
\* failure
bcmLogFatal(ok, next) == IF ok THEN next ELSE "fatal"

\* a clear() that keeps the persisted path map
PathMapAfterReset_kept(ecmp2EgressIds) == ecmp2EgressIds

\* hwSwitchEcmp2EgressIds_.clear()
PathMapAfterReset(ecmp2EgressIds) == EmptyMap

\* the first statements of clear()
StartClear ==
  /\ \/ pc = "ready"
     \/ pc = "done" /\ clearRuns < MaxClearRuns
  /\ pc' = StageAfter("ready")
  /\ dumpedSwSwitchState_' = NoDumpedState
  /\ hwSwitchEcmp2EgressIds_' = PathMapAfterReset(hwSwitchEcmp2EgressIds_)
  /\ cursor' = {}
  /\ ClearFrame
  /\ UNCHANGED clearRuns
  /\ UNCHANGED <<l2Vars, vrfIp2Host_, vrfAndIP2Route_, vrfPrefix2Route_,
                 egressId2EgressAndBool_, egressIds2Ecmp_, hwVars, deleted>>

\* the loop over vrfPrefix2Route_, then vrfPrefix2Route_.clear()
ClearPrefixRoutes ==
  /\ pc = "clear_prefix"
  /\ LET rest == DOMAIN vrfPrefix2Route_ \ cursor IN
     IF rest # {}
       THEN LET key == FirstBy(rest, PrefixKeyRank) IN
            \E ok \in BOOLEAN :
              /\ Issued("route", vrfPrefix2Route_[key])
              /\ hwRoutes' = IF ok THEN hwRoutes \ {vrfPrefix2Route_[key]}
                             ELSE hwRoutes
              /\ cursor' = IF ok THEN cursor \cup {key} ELSE cursor
              /\ pc' = bcmLogFatal(ok, pc)
              /\ UNCHANGED vrfPrefix2Route_
       ELSE /\ vrfPrefix2Route_' = EmptyMap
            /\ cursor' = {}
            /\ pc' = StageAfter(pc)
            /\ UNCHANGED <<hwRoutes, deleted>>
  /\ ClearFrame
  /\ UNCHANGED clearRuns
  /\ UNCHANGED <<fileVars, l2Vars, vrfIp2Host_, vrfAndIP2Route_,
                 egressId2EgressAndBool_, egressIds2Ecmp_, hwL2Vars, hwHosts,
                 hwEgress, hwEcmps>>

\* the loop over vrfAndIP2Route_, then vrfAndIP2Route_.clear()
ClearHostRoutes ==
  /\ pc = "clear_hostroutes"
  /\ LET rest == DOMAIN vrfAndIP2Route_ \ cursor IN
     IF rest # {}
       THEN LET key == FirstBy(rest, HostKeyRank) IN
            \E ok \in BOOLEAN :
              /\ Issued("route", vrfAndIP2Route_[key])
              /\ hwRoutes' = IF ok THEN hwRoutes \ {vrfAndIP2Route_[key]}
                             ELSE hwRoutes
              /\ cursor' = IF ok THEN cursor \cup {key} ELSE cursor
              /\ pc' = bcmLogFatal(ok, pc)
              /\ UNCHANGED vrfAndIP2Route_
       ELSE /\ vrfAndIP2Route_' = EmptyMap
            /\ cursor' = {}
            /\ pc' = StageAfter(pc)
            /\ UNCHANGED <<hwRoutes, deleted>>
  /\ ClearFrame
  /\ UNCHANGED clearRuns
  /\ UNCHANGED <<fileVars, l2Vars, vrfIp2Host_, vrfPrefix2Route_,
                 egressId2EgressAndBool_, egressIds2Ecmp_, hwL2Vars, hwHosts,
                 hwEgress, hwEcmps>>

\* the loop over vrfIp2Host_, then vrfIp2Host_.clear()
\* a host loop that leaves the map as it found it
HostsAfterLoop_kept(hosts) == hosts

\* vrfIp2Host_.clear() after the host loop
HostsAfterLoop(hosts) == EmptyMap

ClearHosts ==
  /\ pc = "clear_hosts"
  /\ LET rest == DOMAIN vrfIp2Host_ \ cursor IN
     IF rest # {}
       THEN LET key == FirstBy(rest, HostKeyRank) IN
            \E ok \in BOOLEAN :
              /\ Issued("host", vrfIp2Host_[key])
              /\ hwHosts' = IF ok THEN hwHosts \ {vrfIp2Host_[key]}
                            ELSE hwHosts
              /\ cursor' = IF ok THEN cursor \cup {key} ELSE cursor
              /\ pc' = bcmLogFatal(ok, pc)
              /\ UNCHANGED vrfIp2Host_
       ELSE /\ vrfIp2Host_' = HostsAfterLoop(vrfIp2Host_)
            /\ cursor' = {}
            /\ pc' = StageAfter(pc)
            /\ UNCHANGED <<hwHosts, deleted>>
  /\ ClearFrame
  /\ UNCHANGED clearRuns
  /\ UNCHANGED <<fileVars, l2Vars, vrfAndIP2Route_, vrfPrefix2Route_,
                 egressId2EgressAndBool_, egressIds2Ecmp_, hwL2Vars, hwRoutes,
                 hwEgress, hwEcmps>>

\* the loop over egressIds2Ecmp_, then egressIds2Ecmp_.clear()
ClearEcmps ==
  /\ pc = "clear_ecmps"
  /\ LET rest == DOMAIN egressIds2Ecmp_ \ cursor IN
     IF rest # {}
       THEN LET key == FirstEgressIds(rest) IN
            \E ok \in BOOLEAN :
              /\ Issued("ecmp", egressIds2Ecmp_[key])
              /\ hwEcmps' =
                   IF ok
                     THEN {g \in hwEcmps : g.ecmp_intf # egressIds2Ecmp_[key]}
                     ELSE hwEcmps
              /\ cursor' = IF ok THEN cursor \cup {key} ELSE cursor
              /\ pc' = bcmLogFatal(ok, pc)
              /\ UNCHANGED egressIds2Ecmp_
       ELSE /\ egressIds2Ecmp_' = EmptyMap
            /\ cursor' = {}
            /\ pc' = StageAfter(pc)
            /\ UNCHANGED <<hwEcmps, deleted>>
  /\ ClearFrame
  /\ UNCHANGED clearRuns
  /\ UNCHANGED <<fileVars, l2Vars, vrfIp2Host_, vrfAndIP2Route_,
                 vrfPrefix2Route_, egressId2EgressAndBool_, hwL2Vars, hwL3Vars,
                 hwEgress>>

\* the loop over egressId2EgressAndBool_, which passes the claimed entries,
\* then egressId2EgressAndBool_.clear()
ClearEgress ==
  /\ pc = "clear_egress"
  /\ LET rest == DOMAIN egressId2EgressAndBool_ \ cursor IN
     IF rest # {}
       THEN LET key == FirstBy(rest, IdRank) IN
            IF EgressInUse(egressId2EgressAndBool_[key])
              THEN /\ cursor' = cursor \cup {key}
                   /\ UNCHANGED <<pc, hwEgress, deleted,
                                  egressId2EgressAndBool_>>
              ELSE \E ok \in BOOLEAN :
                     /\ Issued("egress", key)
                     /\ hwEgress' = IF ok THEN {e \in hwEgress : e.id # key}
                                    ELSE hwEgress
                     /\ cursor' = IF ok THEN cursor \cup {key} ELSE cursor
                     /\ pc' = bcmLogFatal(ok, pc)
                     /\ UNCHANGED egressId2EgressAndBool_
       ELSE /\ egressId2EgressAndBool_' = EmptyMap
            /\ cursor' = {}
            /\ pc' = StageAfter(pc)
            /\ UNCHANGED <<hwEgress, deleted>>
  /\ ClearFrame
  /\ UNCHANGED clearRuns
  /\ UNCHANGED <<fileVars, l2Vars, vrfIp2Host_, vrfAndIP2Route_,
                 vrfPrefix2Route_, egressIds2Ecmp_, hwL2Vars, hwL3Vars,
                 hwEcmps>>

\* the loop over vlanAndMac2Intf_, then vlanAndMac2Intf_.clear()
ClearIntfs ==
  /\ pc = "clear_intfs"
  /\ LET rest == DOMAIN vlanAndMac2Intf_ \ cursor IN
     IF rest # {}
       THEN LET key == FirstBy(rest, IntfKeyRank) IN
            \E ok \in BOOLEAN :
              /\ Issued("intf", vlanAndMac2Intf_[key])
              /\ hwIntfs' = IF ok THEN hwIntfs \ {vlanAndMac2Intf_[key]}
                            ELSE hwIntfs
              /\ cursor' = IF ok THEN cursor \cup {key} ELSE cursor
              /\ pc' = bcmLogFatal(ok, pc)
              /\ UNCHANGED vlanAndMac2Intf_
       ELSE /\ vlanAndMac2Intf_' = EmptyMap
            /\ cursor' = {}
            /\ pc' = StageAfter(pc)
            /\ UNCHANGED <<hwIntfs, deleted>>
  /\ ClearFrame
  /\ UNCHANGED clearRuns
  /\ UNCHANGED <<fileVars, vlan2VlanInfo_, vlan2Station_, vrfIp2Host_,
                 vrfAndIP2Route_, vrfPrefix2Route_, egressId2EgressAndBool_,
                 egressIds2Ecmp_, hwVlans, hwStations, hwL3Vars, hwEgress,
                 hwEcmps>>

\* the loop over vlan2Station_, then vlan2Station_.clear() and
\* opennsl_vlan_default_get, whose failure is fatal too
ClearStations ==
  /\ pc = "clear_stations"
  /\ LET rest == vlan2Station_ \ cursor IN
     IF rest # {}
       THEN LET key == FirstBy(rest, IdRank) IN
            \E ok \in BOOLEAN :
              /\ Issued("station", key)
              /\ hwStations' = IF ok THEN hwStations \ {key} ELSE hwStations
              /\ cursor' = IF ok THEN cursor \cup {key} ELSE cursor
              /\ pc' = bcmLogFatal(ok, pc)
              /\ UNCHANGED vlan2Station_
       ELSE \E ok \in BOOLEAN :
              /\ vlan2Station_' = {}
              /\ cursor' = {}
              /\ pc' = bcmLogFatal(ok, StageAfter(pc))
              /\ UNCHANGED <<hwStations, deleted>>
  /\ ClearFrame
  /\ UNCHANGED clearRuns
  /\ UNCHANGED <<fileVars, vlan2VlanInfo_, vlanAndMac2Intf_, vrfIp2Host_,
                 vrfAndIP2Route_, vrfPrefix2Route_, egressId2EgressAndBool_,
                 egressIds2Ecmp_, hwVlans, hwIntfs, hwL3Vars, hwEgress,
                 hwEcmps>>

\* the loop over vlan2VlanInfo_: the default VLAN is passed, every other VLAN
\* is destroyed and erased from the map
ClearVlans ==
  /\ pc = "clear_vlans"
  /\ LET rest == vlan2VlanInfo_ \ cursor IN
     IF rest # {}
       THEN LET key == FirstBy(rest, IdRank) IN
            IF IsDefaultVlan(key)
              THEN /\ cursor' = cursor \cup {key}
                   /\ UNCHANGED <<pc, hwVlans, deleted, vlan2VlanInfo_,
                                  clearRuns>>
              ELSE \E ok \in BOOLEAN :
                     /\ Issued("vlan", key)
                     /\ hwVlans' = IF ok THEN hwVlans \ {key} ELSE hwVlans
                     /\ vlan2VlanInfo_' = IF ok THEN vlan2VlanInfo_ \ {key}
                                          ELSE vlan2VlanInfo_
                     /\ pc' = bcmLogFatal(ok, pc)
                     /\ UNCHANGED <<cursor, clearRuns>>
       ELSE /\ cursor' = {}
            /\ pc' = StageAfter(pc)
            /\ clearRuns' = clearRuns + 1
            /\ UNCHANGED <<hwVlans, deleted, vlan2VlanInfo_>>
  /\ ClearFrame
  /\ UNCHANGED <<fileVars, vlanAndMac2Intf_, vlan2Station_, vrfIp2Host_,
                 vrfAndIP2Route_, vrfPrefix2Route_, egressId2EgressAndBool_,
                 egressIds2Ecmp_, hwIntfs, hwStations, hwL3Vars, hwEgress,
                 hwEcmps>>

(* ---------------------------- specifications --------------------------- *)
Init ==
  /\ pc = "load"
  /\ canUseHostTableForHostRoutes \in BOOLEAN
  /\ dumpedSwSwitchState_ = NoDumpedState
  /\ hwSwitchEcmp2EgressIds_ = EmptyMap
  /\ hwSwitchEcmp2EgressIdsPopulated_ = FALSE
  /\ vlan2VlanInfo_ = {}
  /\ vlanAndMac2Intf_ = EmptyMap
  /\ vlan2Station_ = {}
  /\ vrfIp2Host_ = EmptyMap
  /\ egressOrEcmpIdsFromHostTable_ = {}
  /\ vrfAndIP2Route_ = EmptyMap
  /\ vrfPrefix2Route_ = EmptyMap
  /\ egressId2EgressAndBool_ = EmptyMap
  /\ dropEgressId_ = INVALID
  /\ toCPUEgressId_ = INVALID
  /\ egressIds2Ecmp_ = EmptyMap
  /\ hwVlans = {} /\ hwIntfs = {} /\ hwStations = {}
  /\ hwHosts = {} /\ hwRoutes = {} /\ hwEgress = {} /\ hwEcmps = {}
  /\ claimed = {}
  /\ egressCalls = 0
  /\ tableCalls = 0
  /\ cursor = {}
  /\ deleted = << >>
  /\ clearRuns = 0
  /\ pathsRet = NoRet
  /\ vlanMapRet = NoRet
  /\ warmBootCacheJson = << >>
  /\ nextHostTable = << >>
  /\ nextEcmp2EgressIds = EmptyMap

\* ECMP path resolution: the loader, the ECMP traversal and getPathsForEcmp,
\* on hardware that holds ECMP groups only
InitEcmp == Init /\ canUseHostTableForHostRoutes

LoadEcmpFile ==
  \E hasHwSwitch \in BOOLEAN, ecmpHosts \in FileLists, ecmpObjects \in FileLists :
    populateStateFromWarmbootFile(EmptyDumpedState, hasHwSwitch,
                                  ecmpHosts, ecmpObjects)

EcmpTraversal == \E ecmp \in HwEcmps : ecmpEgressTraversalCallback(ecmp)

GetPaths == \E ecmp \in EcmpIdSet : CallGetPathsForEcmp(ecmp)

NextEcmp ==
  \/ LoadEcmpFile
  \/ EcmpTraversal
  \/ FinishPopulate
  \/ GetPaths

SpecEcmp == InitEcmp /\ [][NextEcmp]_vars

\* ECMP round trip: the loader, the ECMP traversal, the serialization on
\* exit and the loader of the next warm boot
Reload == \E ecmpHosts \in FileLists : NextCycleLoad(ecmpHosts)

NextRoundTrip ==
  \/ LoadEcmpFile
  \/ EcmpTraversal
  \/ FinishPopulate
  \/ Serialize
  \/ Reload

SpecRoundTrip == InitEcmp /\ [][NextRoundTrip]_vars

(* ------------------------ ECMP path resolution ------------------------- *)
\* the group ecmp_intf has an entry in egressIds2Ecmp_
Recorded(ecmp_intf) ==
  \E ps \in DOMAIN egressIds2Ecmp_ : egressIds2Ecmp_[ps] = ecmp_intf

\* the persisted data yields no paths for the id
NoPersistedPaths(ecmp_intf) ==
  \/ ~hwSwitchEcmp2EgressIdsPopulated_
  \/ ecmp_intf \notin DOMAIN hwSwitchEcmp2EgressIds_

\* C5 - ECMP path preference: when the persisted ECMP data was loaded and
\* holds an entry for a group id, the path set the ECMP traversal callback
\* records for that group is the persisted one, whatever member list the
\* hardware reports; the group is recorded unless the callback ended fatally.
EcmpPathPreference ==
  \A g \in hwEcmps :
    (hwSwitchEcmp2EgressIdsPopulated_
       /\ g.ecmp_intf \in DOMAIN hwSwitchEcmp2EgressIds_)
    => /\ \A ps \in DOMAIN egressIds2Ecmp_ :
            egressIds2Ecmp_[ps] = g.ecmp_intf
              => ps = hwSwitchEcmp2EgressIds_[g.ecmp_intf]
       /\ pc # "fatal" => Recorded(g.ecmp_intf)

\* a group reported with no member and a group reported with a strict,
\* non-empty subset of its persisted paths are both recorded
WitnessEcmpPathPreference ==
  /\ hwSwitchEcmp2EgressIdsPopulated_
  /\ \E g1, g2 \in hwEcmps :
       /\ Recorded(g1.ecmp_intf) /\ Recorded(g2.ecmp_intf)
       /\ Len(g1.intfArray) = 0
       /\ Len(g2.intfArray) > 0
       /\ g2.ecmp_intf \in DOMAIN hwSwitchEcmp2EgressIds_
       /\ toEgressIds(g2.intfArray, Len(g2.intfArray))
            # hwSwitchEcmp2EgressIds_[g2.ecmp_intf]
       /\ toEgressIds(g2.intfArray, Len(g2.intfArray))
            \subseteq hwSwitchEcmp2EgressIds_[g2.ecmp_intf]

\* C6 - ECMP skip artifact: a callback that reports zero members for an id
\* for which the persisted data yields no paths returns normally and
\* records nothing.
EcmpSkipArtifact ==
  [][\A g \in HwEcmps :
       (/\ ecmpEgressTraversalCallback(g)
        /\ Len(g.intfArray) = 0
        /\ NoPersistedPaths(g.ecmp_intf))
       => (pc' = "ecmp" /\ egressIds2Ecmp_' = egressIds2Ecmp_)]_vars

\* C7 - the outcomes of getPathsForEcmp as claimed: the stored set for a
\* known id, not-found for an unknown id while data is stored, and the
\* empty set whenever no ECMP data is stored.
PathsForEcmpThreeOutcomes ==
  pathsRet.kind # "none" =>
    IF pathsRet.id \in DOMAIN hwSwitchEcmp2EgressIds_
      THEN /\ pathsRet.kind = "ok"
           /\ pathsRet.paths = hwSwitchEcmp2EgressIds_[pathsRet.id]
    ELSE IF DOMAIN hwSwitchEcmp2EgressIds_ # {}
      THEN pathsRet.kind = "throw"
    ELSE pathsRet.kind = "ok" /\ pathsRet.paths = {}

\* C7 (amended) - getPathsForEcmp has four outcomes: a fatal abort when the
\* snapshot carried no hardware-state section; otherwise the stored set for
\* a known id, not-found for an unknown id while data is stored, and the
\* empty set when the section was loaded but stored no ECMP entry.
PathsForEcmpOutcomes ==
  pathsRet.kind # "none" =>
    IF ~hwSwitchEcmp2EgressIdsPopulated_
      THEN pathsRet.kind = "fatal" /\ pc = "fatal"
    ELSE IF pathsRet.id \in DOMAIN hwSwitchEcmp2EgressIds_
      THEN /\ pathsRet.kind = "ok"
           /\ pathsRet.paths = hwSwitchEcmp2EgressIds_[pathsRet.id]
    ELSE IF DOMAIN hwSwitchEcmp2EgressIds_ # {}
      THEN pathsRet.kind = "throw"
    ELSE pathsRet.kind = "ok" /\ pathsRet.paths = {}

WitnessPathsForEcmpOutcomes ==
  /\ ~hwSwitchEcmp2EgressIdsPopulated_
  /\ pathsRet.kind = "fatal"

\* C8 - ECMP round trip as claimed: after serializing and loading the
\* output, every discovered group id has the path set it was discovered with.
EcmpRoundTripAlways ==
  pc = "reloaded" =>
    \A ps \in DOMAIN egressIds2Ecmp_ :
      /\ egressIds2Ecmp_[ps] \in DOMAIN nextEcmp2EgressIds
      /\ nextEcmp2EgressIds[egressIds2Ecmp_[ps]] = ps

\* the snapshot's host table section lists the id with at least one path
InNextHostTable(id) ==
  \E i \in DOMAIN nextHostTable :
    nextHostTable[i].egressId = id /\ Len(nextHostTable[i].paths) > 0

\* C8 (amended) - ECMP round trip: for the groups discovered in a cycle in
\* which persisted path data was loaded, serializing the cache and loading
\* the output as the warm boot cache section of the next snapshot yields,
\* for each discovered group id, a path set that contains the discovered
\* one, and equals it when the host table section of that snapshot lists no
\* path for the id.
EcmpRoundTrip ==
  (pc = "reloaded" /\ hwSwitchEcmp2EgressIdsPopulated_) =>
    \A ps \in DOMAIN egressIds2Ecmp_ :
      LET id == egressIds2Ecmp_[ps] IN
      /\ id \in DOMAIN nextEcmp2EgressIds
      /\ ps \subseteq nextEcmp2EgressIds[id]
      /\ ~InNextHostTable(id) => nextEcmp2EgressIds[id] = ps

WitnessEcmpRoundTrip ==
  /\ pc = "reloaded"
  /\ hwSwitchEcmp2EgressIdsPopulated_
  /\ \E ps \in DOMAIN egressIds2Ecmp_ :
       /\ Cardinality(ps) = 2
       /\ ~InNextHostTable(egressIds2Ecmp_[ps])
       /\ nextEcmp2EgressIds[egressIds2Ecmp_[ps]] = ps

(* ------------------------- route classification ------------------------ *)
\* route discovery alone: hardware that holds routes only
LoadPlainFile ==
  populateStateFromWarmbootFile(EmptyDumpedState, FALSE, << >>, << >>)

RouteTraversal ==
  \E route \in HwRoutes({MinOf(EgressIdSet)}) :
    /\ Cardinality(hwRoutes) < MaxRoutes
    /\ route \notin hwRoutes
    /\ routeTraversalCallback(route)

NextRoute ==
  \/ LoadPlainFile
  \/ RouteTraversal
  \/ FinishPopulate

SpecRoute == Init /\ [][NextRoute]_vars

InHostRouteMap(r) ==
  /\ <<r.l3a_vrf, RouteIp(r)>> \in DOMAIN vrfAndIP2Route_
  /\ vrfAndIP2Route_[<<r.l3a_vrf, RouteIp(r)>>] = r

InPrefixRouteMap(r) ==
  /\ <<r.l3a_vrf, RouteIp(r), RouteMask(r)>> \in DOMAIN vrfPrefix2Route_
  /\ vrfPrefix2Route_[<<r.l3a_vrf, RouteIp(r), RouteMask(r)>>] = r

\* the mask has every bit of its own address family set
AllOnesMask(r) == r.masklen = IF r.isIPv6 THEN 128 ELSE 32

\* C9 - host route vs prefix route: a discovered route is in the host route
\* map, under (vrf, ip), iff the platform allows host routes in the host
\* table and its mask is the all-ones mask of its family; otherwise it is in
\* the prefix route map, under (vrf, prefix, mask); never in both, never in
\* neither.
RouteClassification ==
  \A r \in hwRoutes :
    /\ InHostRouteMap(r) <=> (canUseHostTableForHostRoutes /\ AllOnesMask(r))
    /\ InPrefixRouteMap(r) <=> ~(canUseHostTableForHostRoutes /\ AllOnesMask(r))

\* a host route, an IPv6 route whose mask has 32 one bits, and (on the other
\* platform) an all-ones route kept as a prefix route
WitnessRouteClassification ==
  \/ /\ canUseHostTableForHostRoutes
     /\ \E r1, r2 \in hwRoutes :
          /\ AllOnesMask(r1) /\ InHostRouteMap(r1)
          /\ r2.isIPv6 /\ r2.masklen = 32 /\ InPrefixRouteMap(r2)
  \/ /\ ~canUseHostTableForHostRoutes
     /\ \E r \in hwRoutes : AllOnesMask(r) /\ InPrefixRouteMap(r)

(* -------------------- the warm boot, up to teardown -------------------- *)
\* the whole cycle on a small switch: a snapshot without hardware-state
\* section, discovery of every table, claims, clear()
InitGc == Init /\ canUseHostTableForHostRoutes

GcIps == {[v6 |-> FALSE, addr |-> 1], [v6 |-> TRUE, addr |-> 1]}
GcHosts == [l3a_vrf : {0}, ip : GcIps, l3a_intf : {101, 201}]
GcRoutes == [l3a_vrf : {0}, isIPv6 : {FALSE}, net : {1}, masklen : {24, 32},
             l3a_intf : {101, 201}]
GcEgress == [vlan : {2}, intf : {2},
             flags : {{}, {"DST_DISCARD"}, {"L2TOCPU"}}]
GcEcmps == [ecmp_intf : {201}, intfArray : {<< >>, <<101>>, <<101, 102>>}]

HwObjectCount ==
  Cardinality(hwVlans) + Cardinality(hwIntfs) + Cardinality(hwStations)
  + Cardinality(hwHosts) + Cardinality(hwRoutes) + Cardinality(hwEgress)
  + Cardinality(hwEcmps)

VlanList ==
  \E vlan_tag \in {1, 2}, intfFound \in BOOLEAN, stationFound \in BOOLEAN :
    /\ HwObjectCount + 1 + (IF intfFound THEN 1 ELSE 0)
         + (IF StationLookedUp(intfFound, stationFound) THEN 1 ELSE 0)
         <= MaxHwObjects
    /\ PopulateVlan(vlan_tag, intfFound, 1, stationFound)

HostTraversal ==
  \E host \in GcHosts :
    /\ HwObjectCount < MaxHwObjects
    /\ host \notin hwHosts
    /\ hostTraversalCallback(host)

GcRouteTraversal ==
  \E route \in GcRoutes :
    /\ HwObjectCount < MaxHwObjects
    /\ route \notin hwRoutes
    /\ routeTraversalCallback(route)

EgressTraversal ==
  \E egressId \in {101, 102}, egress \in GcEgress :
    HwObjectCount < MaxHwObjects /\ egressTraversalCallback(egressId, egress)

GcEcmpTraversal ==
  \E ecmp \in GcEcmps :
    HwObjectCount < MaxHwObjects /\ ecmpEgressTraversalCallback(ecmp)

Claim ==
  \/ \E key \in DOMAIN vrfPrefix2Route_ : ClaimPrefixRoute(key)
  \/ \E key \in DOMAIN vrfAndIP2Route_ : ClaimHostRoute(key)
  \/ \E key \in DOMAIN vrfIp2Host_ : ClaimHost(key)
  \/ \E egressIds \in DOMAIN egressIds2Ecmp_ : ClaimEcmp(egressIds)
  \/ \E egressId \in DOMAIN egressId2EgressAndBool_ : ClaimEgress(egressId)
  \/ \E key \in DOMAIN vlanAndMac2Intf_ : ClaimIntf(key)
  \/ \E vlan \in vlan2Station_ : ClaimStation(vlan)
  \/ \E vlan \in vlan2VlanInfo_ : ClaimVlan(vlan)

\* one call of clear() on the populated cache
Clear ==
  \/ pc = "ready" /\ StartClear
  \/ ClearPrefixRoutes
  \/ ClearHostRoutes
  \/ ClearHosts
  \/ ClearEcmps
  \/ ClearEgress
  \/ ClearIntfs
  \/ ClearStations
  \/ ClearVlans

Next ==
  \/ LoadPlainFile
  \/ VlanList
  \/ HostTraversal
  \/ GcRouteTraversal
  \/ EgressTraversal
  \/ GcEcmpTraversal
  \/ FinishPopulate
  \/ Claim
  \/ Clear

Spec == InitGc /\ [][Next]_vars

(* ------------------------------ teardown ------------------------------- *)
\* the objects in hardware, and the objects of the delete/destroy calls
HwObjs ==
  {[kind |-> "vlan", obj |-> v] : v \in hwVlans}
  \cup {[kind |-> "intf", obj |-> i] : i \in hwIntfs}
  \cup {[kind |-> "station", obj |-> v] : v \in hwStations}
  \cup {[kind |-> "host", obj |-> h] : h \in hwHosts}
  \cup {[kind |-> "route", obj |-> r] : r \in hwRoutes}
  \cup {[kind |-> "egress", obj |-> e.id] : e \in hwEgress}
  \cup {[kind |-> "ecmp", obj |-> g.ecmp_intf] : g \in hwEcmps}

DeletedObjs == Range(deleted)

\* the discovered objects that no cache map holds, and the default VLAN
NotSwept(o) ==
  \/ o.kind = "vlan" /\ o.obj = DefaultVlan
  \/ o.kind = "egress" /\ o.obj \in {dropEgressId_, toCPUEgressId_}
  \/ /\ o.kind = "ecmp"
     /\ \E g \in hwEcmps : g.ecmp_intf = o.obj /\ Len(g.intfArray) = 0

\* C1 - claim completeness as claimed: a completed teardown has deleted
\* every discovered object outside the claimed set S and nothing in S.
ClaimCompletenessAll ==
  pc = "done" =>
    /\ HwObjs \subseteq claimed
    /\ DeletedObjs \cap claimed = {}

\* C1 (amended) - claim completeness: a completed teardown has deleted
\* exactly the discovered objects that are outside the claimed set S, are
\* held in a cache map (every discovered object but the drop and to-CPU
\* singleton egress objects and the ECMP groups skipped at discovery) and
\* are not the default VLAN; it has deleted nothing in S.
ClaimCompleteness ==
  pc = "done" =>
    /\ \A o \in HwObjs : o \in claimed \/ NotSwept(o)
    /\ \A o \in DeletedObjs : o \notin claimed /\ ~NotSwept(o)

\* a teardown that kept a claimed object, the unclaimed default VLAN and a
\* singleton egress object, and deleted something
WitnessClaimCompleteness ==
  /\ pc = "done"
  /\ claimed # {}
  /\ deleted # << >>
  /\ DefaultVlan \in hwVlans
  /\ [kind |-> "vlan", obj |-> DefaultVlan] \notin claimed
  /\ \E e \in hwEgress : e.id \in {dropEgressId_, toCPUEgressId_}

\* C2 - a claimed object is never deleted: no delete/destroy call of
\* clear() is for an entry a claim erased from its map, nor for an egress
\* object whose claimed flag is set.
ClaimedNeverDeleted ==
  [][Len(deleted') > Len(deleted) =>
       LET d == deleted'[Len(deleted')] IN
       /\ d \notin claimed
       /\ d.kind = "egress" => ~egressId2EgressAndBool_[d.obj].claimed]_vars

\* a teardown passed a claimed egress object and a claimed host entry and
\* deleted other objects
WitnessClaimedNeverDeleted ==
  /\ pc = "done"
  /\ deleted # << >>
  /\ \E e \in hwEgress : [kind |-> "egress", obj |-> e.id] \in claimed
  /\ \E h \in hwHosts : [kind |-> "host", obj |-> h] \in claimed

\* the objects of hardware that refer to the egress object id
HostsTo(id) == {h \in hwHosts : h.l3a_intf = id}
RoutesTo(id) == {r \in hwRoutes : r.l3a_intf = id}
EcmpsTo(id) ==
  {g \in hwEcmps : id \in toEgressIds(g.intfArray, Len(g.intfArray))}
\* the egress objects of hardware that refer to the interface
EgressOn(intf) == {e \in hwEgress : e.egress.intf = intf.l3a_vid}

\* C3 - deletion order as claimed: when an egress object is destroyed no
\* route, host entry or ECMP group referring to it is left in hardware; when
\* an L3 interface is deleted no egress object referring to it is left.
DeletionOrderAll ==
  [][/\ \A e \in hwEgress \ hwEgress' :
          HostsTo(e.id) = {} /\ RoutesTo(e.id) = {} /\ EcmpsTo(e.id) = {}
     /\ \A i \in hwIntfs \ hwIntfs' : EgressOn(i) = {}
    ]_vars

\* C3 (amended) - deletion order: when an egress object is destroyed, every
\* route, host entry or ECMP group that refers to it and is still in
\* hardware is one that was claimed; when an L3 interface is deleted, every
\* egress object that refers to it and is still in hardware was claimed or
\* is the drop or to-CPU singleton.
DeletionOrder ==
  [][/\ \A e \in hwEgress \ hwEgress' :
          /\ \A h \in HostsTo(e.id) : [kind |-> "host", obj |-> h] \in claimed
          /\ \A r \in RoutesTo(e.id) : [kind |-> "route", obj |-> r] \in claimed
          /\ \A g \in EcmpsTo(e.id) :
               [kind |-> "ecmp", obj |-> g.ecmp_intf] \in claimed
     /\ \A i \in hwIntfs \ hwIntfs' :
          \A e \in EgressOn(i) :
            \/ [kind |-> "egress", obj |-> e.id] \in claimed
            \/ e.id \in {dropEgressId_, toCPUEgressId_}
    ]_vars

\* a teardown deleted a host entry, then the egress object it referred to,
\* then an L3 interface
WitnessDeletionOrder ==
  /\ pc = "done"
  /\ \E i, j, k \in DOMAIN deleted :
       /\ i < j /\ j < k
       /\ deleted[i].kind = "host"
       /\ deleted[j].kind = "egress"
       /\ deleted[i].obj.l3a_intf = deleted[j].obj
       /\ deleted[k].kind = "intf"

(* ------------------------- reconstructVlanMap -------------------------- *)
\* findEgress(vrf, ip): the entry of egressId2EgressAndBool_ for the egress
\* id of the host entry, or none
findEgress(vrf, ip) ==
  IF <<vrf, ip>> \in DOMAIN vrfIp2Host_
     /\ vrfIp2Host_[<<vrf, ip>>].l3a_intf \in DOMAIN egressId2EgressAndBool_
    THEN [found |-> TRUE,
          egress |->
            egressId2EgressAndBool_[vrfIp2Host_[<<vrf, ip>>].l3a_intf].egress]
    ELSE [found |-> FALSE]

\* BcmEgress::programmedToDrop
programmedToDrop(egress) == IsDiscard(egress)

\* a filter that finds every IP in the snapshot
DumpedHas_any(dumpedVlan, ip) == TRUE

\* getArpTable()->getEntryIf(ip.asV4()) / getNdpTable()->getEntryIf(ip.asV6())
DumpedHas(dumpedVlan, ip) ==
  IF ip.v6 THEN ip.addr \in dumpedVlan.ndp ELSE ip.addr \in dumpedVlan.arp

\* the host entries that pass the two "continue"s on findEgress and VLAN 0
OnRealVlan ==
  {key \in DOMAIN vrfIp2Host_ :
     /\ findEgress(key[1], key[2]).found
     /\ findEgress(key[1], key[2]).egress.vlan # kVlanForCPUEgressEntries}

VlanOf(key) == findEgress(key[1], key[2]).egress.vlan

\* dumpedVlans->getVlan(vlanId) fails for some host entry
GetVlanThrows(dumpedVlans) ==
  /\ ~dumpedVlans.null
  /\ \E key \in OnRealVlan : VlanOf(key) \notin DOMAIN dumpedVlans.map

\* the host entries that reach vlan2AddrTables
Promoted(dumpedVlans) ==
  {key \in OnRealVlan :
     dumpedVlans.null \/ DumpedHas(dumpedVlans.map[VlanOf(key)], key[2])}

\* the ARP (v6 = FALSE) or NDP table built for a VLAN
AddrTable(dumpedVlans, vlanId, v6) ==
  {[ip |-> key[2].addr,
    pending |-> programmedToDrop(findEgress(key[1], key[2]).egress)] :
     key \in {k \in Promoted(dumpedVlans) :
                VlanOf(k) = vlanId /\ k[2].v6 = v6}}

reconstructVlanMap ==
  LET dumpedVlans == dumpedSwSwitchState_.vlans IN
  IF GetVlanThrows(dumpedVlans) THEN [kind |-> "throw"]
  ELSE IF \E key \in Promoted(dumpedVlans) : VlanOf(key) \notin vlan2VlanInfo_
    THEN [kind |-> "fatal"]
  ELSE [kind |-> "ok",
        vlans |-> [vlanId \in vlan2VlanInfo_ |->
                     [arpTable |-> AddrTable(dumpedVlans, vlanId, FALSE),
                      ndpTable |-> AddrTable(dumpedVlans, vlanId, TRUE)]]]

\* the reconciliation logic asks for the VLAN view
CallReconstructVlanMap ==
  /\ pc = "ready"
  /\ vlanMapRet' = reconstructVlanMap
  /\ pc' = CASE reconstructVlanMap.kind = "fatal" -> "fatal"
             [] reconstructVlanMap.kind = "throw" -> "thrown"
             [] OTHER -> "ready"
  /\ UNCHANGED <<canUseHostTableForHostRoutes, fileVars, l2Vars, l3Vars,
                 egrVars, egressIds2Ecmp_, hwVars, gcVars, pathsRet,
                 warmBootCacheJson, nextHostTable, nextEcmp2EgressIds>>

(* --------------------------- egress discovery -------------------------- *)
\* host and egress traversal, on hardware that holds up to MaxEgressObjs
\* egress objects with every combination of the flags the callback tests
EgressObjIds == {100 + i : i \in 1..MaxEgressObjs}
EgHosts == [l3a_vrf : {0}, ip : {[v6 |-> FALSE, addr |-> a] : a \in 1..MaxAddr},
            l3a_intf : EgressObjIds]
EgEgress == [vlan : {2}, intf : {2},
             flags : {{}, {"DST_DISCARD"}, {"L2TOCPU"}, {"COPY_TO_CPU"},
                      {"DST_DISCARD", "L2TOCPU"}}]

EgHostTraversal ==
  \E host \in EgHosts : host \notin hwHosts /\ hostTraversalCallback(host)

EgEgressTraversal ==
  \E egressId \in EgressObjIds, egress \in EgEgress :
    egressTraversalCallback(egressId, egress)

NextEgress ==
  \/ LoadPlainFile
  \/ EgHostTraversal
  \/ EgEgressTraversal
  \/ FinishPopulate

SpecEgress == Init /\ [][NextEgress]_vars

DropFlagged == {e \in hwEgress : IsDiscard(e.egress)}
ToCPUFlagged == {e \in hwEgress : IsToCPU(e.egress)}
Unreferenced == {e \in hwEgress : HostsTo(e.id) = {}}

\* C4 - egress uniqueness as claimed: while discovery has not ended in a
\* fatal error, at most one discovered egress object carries the drop flag
\* and at most one carries a to-CPU flag.
EgressUniquenessAll ==
  pc # "fatal" =>
    /\ Cardinality(DropFlagged) <= 1
    /\ Cardinality(ToCPUFlagged) <= 1

\* C4 (amended) - egress uniqueness: while discovery has not ended in a
\* fatal error, among the discovered egress objects that no host entry
\* refers to, at most one carries the drop flag and at most one carries a
\* to-CPU flag without the drop flag, and these are the recorded drop and
\* to-CPU singletons; a second of either kind is therefore fatal.  An egress
\* object a host entry refers to is stored whatever its flags.
EgressUniqueness ==
  pc # "fatal" =>
    /\ Cardinality(Unreferenced \cap DropFlagged) <= 1
    /\ Cardinality((Unreferenced \cap ToCPUFlagged) \ DropFlagged) <= 1
    /\ \A e \in Unreferenced \cap DropFlagged : dropEgressId_ = e.id
    /\ \A e \in (Unreferenced \cap ToCPUFlagged) \ DropFlagged :
         toCPUEgressId_ = e.id
    /\ \A e \in hwEgress \ Unreferenced :
         e.id \in DOMAIN egressId2EgressAndBool_

\* both singletons were found and a drop-flagged egress object that a host
\* entry refers to was stored
WitnessEgressUniqueness ==
  /\ pc # "fatal"
  /\ dropEgressId_ # INVALID
  /\ toCPUEgressId_ # INVALID
  /\ \E id \in DOMAIN egressId2EgressAndBool_ :
       IsDiscard(egressId2EgressAndBool_[id].egress)

(* -------------------------- VLAN reconstruction ------------------------ *)
\* snapshots with VLANs 1 and 2 or VLAN 1 alone, hosts of one VRF with one
\* IPv4 and one IPv6 address, egress objects on VLAN 0, 1 or 2
NoNeighbors == [arp |-> {}, ndp |-> {}]
ArpOnly == [arp |-> {1}, ndp |-> {}]
NdpOnly == [arp |-> {}, ndp |-> {1}]
DumpedStates ==
  {[vlans |-> VlansPtr([v \in {1, 2} |-> IF v = 1 THEN t1 ELSE t2])] :
     t1 \in {NoNeighbors, ArpOnly}, t2 \in {NoNeighbors, ArpOnly, NdpOnly}}
  \cup {[vlans |-> VlansPtr([v \in {1} |-> ArpOnly])]}
VmHosts == [l3a_vrf : {0}, ip : GcIps, l3a_intf : {101, 102, 201}]
VmEgress == [vlan : {0, 1, 2}, intf : {2}, flags : {{}, {"DST_DISCARD"}}]

LoadVlanFile ==
  \E dumped \in DumpedStates :
    populateStateFromWarmbootFile(dumped, FALSE, << >>, << >>)

VmVlanList == \E vlan_tag \in {1, 2} : PopulateVlan(vlan_tag, FALSE, 0, FALSE)

VmHostTraversal ==
  \E host \in VmHosts : host \notin hwHosts /\ hostTraversalCallback(host)

VmEgressTraversal ==
  \E egressId \in {101, 102}, egress \in VmEgress :
    egressTraversalCallback(egressId, egress)

NextVlanMap ==
  \/ LoadVlanFile
  \/ VmVlanList
  \/ VmHostTraversal
  \/ VmEgressTraversal
  \/ FinishPopulate
  \/ CallReconstructVlanMap

SpecVlanMap == Init /\ [][NextVlanMap]_vars

\* the IPs of the reconstructed ARP or NDP table of a VLAN
Reconstructed(vlanId, v6) ==
  IF vlanId \notin DOMAIN vlanMapRet.vlans THEN {}
  ELSE {n.ip : n \in IF v6 THEN vlanMapRet.vlans[vlanId].ndpTable
                           ELSE vlanMapRet.vlans[vlanId].arpTable}

\* the IPs of the snapshot's ARP or NDP table of a VLAN
Persisted(vlanId, v6) ==
  IF vlanId \notin DOMAIN dumpedSwSwitchState_.vlans.map THEN {}
  ELSE IF v6 THEN dumpedSwSwitchState_.vlans.map[vlanId].ndp
  ELSE dumpedSwSwitchState_.vlans.map[vlanId].arp

\* the host entry has an egress object in the egress map, on a VLAN other
\* than 0
HasVlanEgress(h) ==
  /\ h.l3a_intf \in DOMAIN egressId2EgressAndBool_
  /\ egressId2EgressAndBool_[h.l3a_intf].egress.vlan # kVlanForCPUEgressEntries

\* C10 - neighbor promotion filter: every IP of a reconstructed ARP/NDP
\* table of VLAN V is in the snapshot's table of V of the same family and
\* is the IP of a host entry whose egress object is on V; a host entry whose
\* egress object is on VLAN 0 or is not in the egress map is in no
\* reconstructed table.
NeighborPromotionFilter ==
  vlanMapRet.kind = "ok" =>
    /\ \A vlanId \in DOMAIN vlanMapRet.vlans, v6 \in BOOLEAN :
         \A a \in Reconstructed(vlanId, v6) :
           /\ a \in Persisted(vlanId, v6)
           /\ \E h \in hwHosts :
                /\ h.ip = [v6 |-> v6, addr |-> a]
                /\ HasVlanEgress(h)
                /\ egressId2EgressAndBool_[h.l3a_intf].egress.vlan = vlanId
    /\ \A h \in hwHosts :
         ~HasVlanEgress(h) =>
           \A vlanId \in DOMAIN vlanMapRet.vlans :
             h.ip.addr \notin Reconstructed(vlanId, h.ip.v6)

\* a reconstruction promoted one host entry, dropped another whose IP the
\* snapshot's table of its VLAN does not hold, and passed one that has no
\* egress object on a VLAN
WitnessNeighborPromotionFilter ==
  /\ vlanMapRet.kind = "ok"
  /\ \E h \in hwHosts :
       /\ HasVlanEgress(h)
       /\ h.ip.addr \in
            Reconstructed(egressId2EgressAndBool_[h.l3a_intf].egress.vlan,
                          h.ip.v6)
  /\ \E h \in hwHosts :
       /\ HasVlanEgress(h)
       /\ h.ip.addr \notin
            Reconstructed(egressId2EgressAndBool_[h.l3a_intf].egress.vlan,
                          h.ip.v6)

FailedDeletionIsFatal ==
  \A i \in DOMAIN deleted :
    deleted[i] \in HwObjs => i = Len(deleted) /\ pc = "fatal"

\* a host deletion failed after an earlier deletion had succeeded, with an
\* unclaimed egress object still waiting in the egress map
WitnessFailedDeletionIsFatal ==
  /\ pc = "fatal"
  /\ Len(deleted) >= 2
  /\ deleted[Len(deleted)] \in HwObjs
  /\ deleted[Len(deleted)].kind = "host"
  /\ \E id \in DOMAIN egressId2EgressAndBool_ :
       ~egressId2EgressAndBool_[id].claimed

(* ------------------------ the maps after teardown ---------------------- *)
\* C13 - the maps after teardown: when clear() has run to completion, the
\* prefix route, host route, host, ECMP, egress, interface, station and
\* VLAN maps and the persisted ECMP path map are all empty.
MapsEmptyAfterClear ==
  pc = "done" =>
    /\ DOMAIN vrfPrefix2Route_ = {}
    /\ DOMAIN vrfAndIP2Route_ = {}
    /\ DOMAIN vrfIp2Host_ = {}
    /\ DOMAIN egressIds2Ecmp_ = {}
    /\ DOMAIN egressId2EgressAndBool_ = {}
    /\ DOMAIN vlanAndMac2Intf_ = {}
    /\ vlan2Station_ = {}
    /\ vlan2VlanInfo_ = {}
    /\ DOMAIN hwSwitchEcmp2EgressIds_ = {}

(* --------------------------- the default VLAN -------------------------- *)
\* C14 - the default VLAN: clear() never issues a destroy call for the
\* default VLAN, claimed or not, and a completed clear() has destroyed every
\* other VLAN that was still in the VLAN map (every VLAN left in hardware
\* is the default VLAN or was claimed).
DefaultVlanKept ==
  /\ [kind |-> "vlan", obj |-> DefaultVlan] \notin Range(deleted)
  /\ pc = "done" =>
       \A v \in hwVlans \ {DefaultVlan} :
         [kind |-> "vlan", obj |-> v] \in claimed

\* a completed teardown destroyed VLAN 2 and left the unclaimed default VLAN
WitnessDefaultVlanKept ==
  /\ pc = "done"
  /\ DefaultVlan \in hwVlans
  /\ [kind |-> "vlan", obj |-> DefaultVlan] \notin claimed
  /\ [kind |-> "vlan", obj |-> 2] \in Range(deleted)

(* ------------------------- the order of the stages --------------------- *)
\* the stage of clear() a delete/destroy call belongs to
StageOf(d) ==
  CASE d.kind = "route" ->
         IF canUseHostTableForHostRoutes /\ AllOnesMask(d.obj) THEN 2 ELSE 1
    [] d.kind = "host" -> 3
    [] d.kind = "ecmp" -> 4
    [] d.kind = "egress" -> 5
    [] d.kind = "intf" -> 6
    [] d.kind = "station" -> 7
    [] d.kind = "vlan" -> 8

\* C15 - the stages are ordered: in the calls of one clear(), prefix routes
\* come before host routes, then host entries, ECMP groups, egress objects,
\* L3 interfaces, L2 stations, VLANs; no call of an earlier stage follows a
\* call of a later stage.
StagesOrdered ==
  \A i, j \in DOMAIN deleted :
    i < j => StageOf(deleted[i]) <= StageOf(deleted[j])

\* a completed teardown that made calls of four stages
WitnessStagesOrdered ==
  /\ pc = "done"
  /\ Cardinality({StageOf(deleted[i]) : i \in DOMAIN deleted}) >= 4

(* ------------------------ unflagged egress objects --------------------- *)
Unflagged == {e \in hwEgress : ~IsDiscard(e.egress) /\ ~IsToCPU(e.egress)}

\* C16 - unflagged egress objects: before any claim or teardown, a
\* discovered egress object with neither the drop nor a to-CPU flag that a
\* host entry or a route entry refers to is in the egress map with claimed
\* = false, and one that neither refers to has ended discovery in a fatal
\* error.
UnflaggedEgressByReference ==
  claimed = {} /\ deleted = << >> =>
    \A e \in Unflagged :
      IF HostsTo(e.id) # {} \/ RoutesTo(e.id) # {}
        THEN /\ e.id \in DOMAIN egressId2EgressAndBool_
             /\ ~egressId2EgressAndBool_[e.id].claimed
        ELSE pc = "fatal"

(* ------------------------- the ECMP group map -------------------------- *)
\* what the callback resolves for a group hardware holds
Resolved(g) == ResolveEcmpPaths(g.ecmp_intf, g.intfArray, Len(g.intfArray))

\* C17 - no empty path set: every key of egressIds2Ecmp_ is a non-empty set
\* of egress ids, whatever the loader read and the ECMP traversal reported.
EcmpKeysNonEmpty == \A ps \in DOMAIN egressIds2Ecmp_ : ps # {}

\* a group with members was recorded and a callback with zero members was
\* passed
WitnessEcmpKeysNonEmpty ==
  /\ DOMAIN egressIds2Ecmp_ # {}
  /\ \E g \in hwEcmps : Len(g.intfArray) = 0 /\ ~Recorded(g.ecmp_intf)

\* C18 - duplicate path set: an ECMP callback whose resolved path set is
\* already a key of egressIds2Ecmp_ ends in a fatal error and leaves the map
\* as it was, also when the recorded group has another id.
DuplicatePathSetFatal ==
  [][\A ecmp \in HwEcmps :
       (/\ ecmpEgressTraversalCallback(ecmp)
        /\ Resolved(ecmp).kind = "paths"
        /\ Resolved(ecmp).egressIds \in DOMAIN egressIds2Ecmp_)
       => pc' = "fatal" /\ UNCHANGED egressIds2Ecmp_]_vars

\* the fatal end of a callback for a group whose path set was recorded
\* under another group id
WitnessDuplicatePathSetFatal ==
  /\ pc = "fatal"
  /\ \E g1, g2 \in hwEcmps :
       /\ g1.ecmp_intf # g2.ecmp_intf
       /\ Resolved(g1).kind = "paths" /\ Resolved(g2).kind = "paths"
       /\ Resolved(g1).egressIds = Resolved(g2).egressIds
       /\ Resolved(g1).egressIds \in DOMAIN egressIds2Ecmp_
       /\ egressIds2Ecmp_[Resolved(g1).egressIds] = g1.ecmp_intf

\* C19 - lookup failure with members: when the persisted ECMP data was
\* loaded, holds no entry for the group id (and is not empty, so that the
\* lookup raises not-found) and the callback reports at least one member,
\* the callback throws and records nothing.
EcmpNotFoundPropagates ==
  [][\A ecmp \in HwEcmps :
       (/\ ecmpEgressTraversalCallback(ecmp)
        /\ hwSwitchEcmp2EgressIdsPopulated_
        /\ getPathsForEcmp(ecmp.ecmp_intf).kind = "throw"
        /\ Len(ecmp.intfArray) > 0)
       => pc' = "thrown" /\ UNCHANGED egressIds2Ecmp_]_vars

\* the callback threw for a group with members after another group had been
\* recorded from the persisted data
WitnessEcmpNotFoundPropagates ==
  /\ pc = "thrown"
  /\ hwSwitchEcmp2EgressIdsPopulated_
  /\ DOMAIN egressIds2Ecmp_ # {}
  /\ \E g \in hwEcmps :
       /\ Len(g.intfArray) > 0
       /\ g.ecmp_intf \notin DOMAIN hwSwitchEcmp2EgressIds_
       /\ ~Recorded(g.ecmp_intf)

DupHosts == [l3a_vrf : {0}, ip : GcIps, l3a_intf : {101}]

DupHostTraversal == \E host \in DupHosts : hostTraversalCallback(host)

DupRouteTraversal == \E route \in GcRoutes : routeTraversalCallback(route)

NextDup ==
  \/ LoadPlainFile
  \/ DupHostTraversal
  \/ DupRouteTraversal
  \/ FinishPopulate

SpecDup == Init /\ [][NextDup]_vars

\* C21 - duplicate keys are fatal: a second host callback for a (vrf, ip)
\* already recorded, or a second route callback for a (vrf, ip) or
\* (vrf, prefix, mask) already recorded, ends in a fatal error and leaves
\* the first record in its map.
DuplicateKeyFatal ==
  [][/\ \A h \in hwHosts :
          hostTraversalCallback(h) => pc' = "fatal" /\ UNCHANGED vrfIp2Host_
     /\ \A r \in hwRoutes :
          routeTraversalCallback(r) =>
            /\ pc' = "fatal"
            /\ UNCHANGED <<vrfAndIP2Route_, vrfPrefix2Route_>>]_vars

(* ---------------------- the singletons at teardown --------------------- *)
\* C22 - the singletons are kept: the ids recorded as the drop and the
\* to-CPU singleton are never keys of egressId2EgressAndBool_, and no
\* destroy call of clear() is for either of them, whatever was claimed.
SingletonsNeverDestroyed ==
  /\ dropEgressId_ \notin DOMAIN egressId2EgressAndBool_
  /\ toCPUEgressId_ \notin DOMAIN egressId2EgressAndBool_
  /\ \A i \in DOMAIN deleted :
       deleted[i].kind = "egress" =>
         deleted[i].obj \notin {dropEgressId_, toCPUEgressId_}

\* a completed teardown destroyed an egress object and left the drop
\* singleton in hardware
WitnessSingletonsNeverDestroyed ==
  /\ pc = "done"
  /\ \E i \in DOMAIN deleted : deleted[i].kind = "egress"
  /\ \E e \in hwEgress : e.id = dropEgressId_

(* ------------------------ the tables by VLAN --------------------------- *)
IntfVlans == {k[1] : k \in DOMAIN vlanAndMac2Intf_}

\* C23 - nesting by VLAN: when populate() has finished and nothing has been
\* claimed, every VLAN of vlan2Station_ is the VLAN of an interface of
\* vlanAndMac2Intf_, every VLAN of an interface is in vlan2VlanInfo_, and
\* no VLAN has two interfaces (vlan2Station_ is keyed by VLAN, so it holds
\* one station per VLAN).
VlanNesting ==
  (pc = "ready" /\ claimed = {}) =>
    /\ vlan2Station_ \subseteq IntfVlans
    /\ IntfVlans \subseteq vlan2VlanInfo_
    /\ \A k1, k2 \in DOMAIN vlanAndMac2Intf_ : k1[1] = k2[1] => k1 = k2

\* discovery ended with a station on one VLAN and no interface on another
WitnessVlanNesting ==
  /\ pc = "ready"
  /\ claimed = {}
  /\ vlan2Station_ # {}
  /\ vlan2VlanInfo_ \ IntfVlans # {}

(* ----------------------- a second run of clear() ----------------------- *)
\* clear() is called again on the cache a completed clear() left
ClearAgain == pc = "done" /\ StartClear

AgainClaim ==
  \/ \E key \in DOMAIN vrfIp2Host_ : ClaimHost(key)
  \/ \E egressId \in DOMAIN egressId2EgressAndBool_ : ClaimEgress(egressId)
  \/ \E key \in DOMAIN vlanAndMac2Intf_ : ClaimIntf(key)
  \/ \E vlan \in vlan2Station_ : ClaimStation(vlan)
  \/ \E vlan \in vlan2VlanInfo_ : ClaimVlan(vlan)

NextAgain ==
  \/ LoadPlainFile
  \/ VlanList
  \/ HostTraversal
  \/ EgressTraversal
  \/ FinishPopulate
  \/ AgainClaim
  \/ Clear
  \/ ClearAgain

SpecAgain == InitGc /\ [][NextAgain]_vars

\* C24 - teardown is idempotent: once a run of clear() has completed, a
\* further run issues no delete or destroy call and leaves every cache map,
\* and the hardware, as the first run left them.
SecondClearIdle ==
  [][clearRuns >= 1 =>
       UNCHANGED <<deleted, fileVars, l2Vars, l3Vars, egrVars,
                   egressIds2Ecmp_, hwVars>>]_vars

\* a second run has completed on a cache whose first run issued delete
\* calls and stepped over the default VLAN
WitnessSecondClearIdle ==
  /\ pc = "done"
  /\ clearRuns = 2
  /\ deleted # << >>
  /\ vlan2VlanInfo_ = {DefaultVlan}

(* -------------------- getPathsForEcmp after clear() -------------------- *)
\* a warm boot that loads the persisted ECMP data, discovers the groups and
\* tears the cache down, with callers of getPathsForEcmp before and after
NextTeardown ==
  \/ LoadEcmpFile
  \/ EcmpTraversal
  \/ FinishPopulate
  \/ GetPaths
  \/ Clear

SpecTeardown == InitEcmp /\ [][NextTeardown]_vars

\* C25 - the persisted paths are gone at teardown: hwSwitchEcmp2EgressIds_
\* is empty from before the first delete call of clear() on, and once
\* clear() has run on a cache that loaded the persisted ECMP data,
\* getPathsForEcmp returns the empty set for every id and neither throws
\* nor fails.
PathsEmptyAfterClear ==
  /\ [](deleted # << >> => DOMAIN hwSwitchEcmp2EgressIds_ = {})
  /\ [][\A ecmp \in EcmpIdSet :
          (/\ pc = "done"
           /\ hwSwitchEcmp2EgressIdsPopulated_
           /\ CallGetPathsForEcmp(ecmp)) =>
            pathsRet' = [id |-> ecmp, kind |-> "ok", paths |-> {}]]_vars

\* after a teardown that destroyed a group discovered through its persisted
\* paths, a caller asked for the paths of that group and got the empty set
WitnessPathsEmptyAfterClear ==
  /\ pc = "done"
  /\ hwSwitchEcmp2EgressIdsPopulated_
  /\ pathsRet.kind = "ok"
  /\ pathsRet.paths = {}
  /\ \E i \in DOMAIN deleted :
       deleted[i] = [kind |-> "ecmp", obj |-> pathsRet.id]

====
